---- MODULE Spec2Model ----
(***************************************************************************)
(* Day 16 of dyoo/advent-2022-rust: the valve network optimiser.           *)
(*                                                                         *)
(*   src/day16/src/lib.rs                  NormalizedValve, get_current_flow*)
(*   src/day16/src/search.rs               all-pairs distances, the agent  *)
(*                                         state machine, the heuristic and *)
(*                                         the best-first search driver     *)
(*   src/day16/src/dynamic_programming.rs  the memoised single-agent solver *)
(*                                                                         *)
(* Valve ids are the dense indices 0..n-1 of the valve table, as in the    *)
(* source.  A Vec indexed by id is a function on 0..n-1; a BitSet is a set *)
(* of ids; `exits` (a Vec<usize>) is modelled by the set of its elements,  *)
(* since the code only iterates over it to take a maximum or to set matrix *)
(* entries.  u32 values are naturals; TLC's integers are 32-bit signed, so *)
(* the sentinel u32::MAX is modelled by the largest value TLC can hold.    *)
(***************************************************************************)
EXTENDS Integers, Sequences, FiniteSets, TLC

VARIABLES
    parsed,                 \* &[Valve]: the parsed valves given to normalize_valves
    valves,                 \* &[NormalizedValve]: the valve table
    starting_ats,           \* &[usize]: one start id per agent
    time_budget,            \* time_left argument of find_optimal_total_flow
    pc,                     \* position of the program
    cache,                  \* dynamic_programming: memo entries of the current level
    dp_time,                \* dynamic_programming: the time_left the cache is filled for
    dp_result,              \* dynamic_programming::find_optimal_total_flow's value
    distances,              \* search: the matrix of all_pairs_shortest
    state_priority_queue,   \* search: BinaryHeap<State>, as its backing array
    best_solution_so_far,   \* search: the running best
    result,                 \* search::find_optimal_total_flow's value
    expanded,               \* search: the last loop iteration (popped, ticked, children)
    costs                   \* floyd_warshall: the argument matrix

vars == <<parsed, valves, starting_ats, time_budget, pc, cache, dp_time, dp_result,
          distances, state_priority_queue, best_solution_so_far, result,
          expanded, costs>>

---------------------------------------------------------------------------
(* Bounds of the model.                                                    *)

MaxFlow == 2        \* flow rates of the generated valve tables are 0..MaxFlow
MaxTime == 5        \* time budgets of the generated scenarios are 0..MaxTime
MaxAgents == 2      \* the generated scenarios have 1..MaxAgents agents
MaxValves == 3      \* the distance solver is run on tables of 1..MaxValves valves
MaxParsed == 2      \* normalize_valves is run on lists of 1..MaxParsed parsed valves
MaxExits == 2       \* a parsed valve names 1..MaxExits exits

(* Program constants.                                                      *)

U32_MAX == 2147483647
\* Variant: the running best starts at the sentinel of the estimates.
U32_MIN_as_sentinel == U32_MAX

U32_MIN == 0
TIME_TO_OPEN_VALVE == 1

---------------------------------------------------------------------------
(* Small helpers for u32 arithmetic and iteration order.                   *)

Min2(a, b) == IF a <= b THEN a ELSE b
Max2(a, b) == IF a >= b THEN a ELSE b

saturating_add(a, b) == IF a >= U32_MAX - b THEN U32_MAX ELSE a + b
saturating_sub(a, b) == IF a >= b THEN a - b ELSE 0

\* TRUE.  TLC passes operator arguments unevaluated; comparing an accumulator
\* with itself makes it a value before the next iteration of a loop.
Strict(v) == v = v

SetMin(S) == CHOOSE x \in S : \A y \in S : x <= y
SetMax(S) == CHOOSE x \in S : \A y \in S : x >= y

(* BitSet::iter yields the ids in increasing order. *)
RECURSIVE BitSetIter(_)
BitSetIter(S) ==
    IF S = {} THEN <<>>
    ELSE LET m == SetMin(S) IN <<m>> \o BitSetIter(S \ {m})

Ids(vs) == DOMAIN vs
NumValves(vs) == Cardinality(DOMAIN vs)

---------------------------------------------------------------------------
(* lib.rs                                                                  *)

RECURSIVE SumFlow(_, _)
SumFlow(S, vs) ==
    IF S = {} THEN 0
    ELSE LET x == CHOOSE y \in S : TRUE IN vs[x].flow_rate + SumFlow(S \ {x}, vs)

\* Variant: every open valve counted twice.
get_current_flow_double(open, vs) == 2 * SumFlow(open, vs)

get_current_flow(open, vs) == SumFlow(open, vs)

---------------------------------------------------------------------------
(* search.rs: all-pairs distances                                          *)

\* u32 addition that wraps around instead of saturating.
wrapping_add(a, b) == IF a > U32_MAX - b THEN a - (U32_MAX - b) - 1 ELSE a + b

\* Variant: the relaxation with wrapping addition.
RelaxWrapping(c, k, i, j) ==
    IF wrapping_add(c[i][k], c[k][j]) < c[i][j]
    THEN [c EXCEPT ![i][j] = wrapping_add(c[i][k], c[k][j])]
    ELSE c

\* The body of the innermost loop of floyd_warshall.
Relax(c, k, i, j) ==
    IF saturating_add(c[i][k], c[k][j]) < c[i][j]
    THEN [c EXCEPT ![i][j] = saturating_add(c[i][k], c[k][j])]
    ELSE c

RECURSIVE FWLoopJ(_, _, _, _, _)
FWLoopJ(c, n, k, i, j) ==
    IF j >= n THEN c
    ELSE LET c2 == Relax(c, k, i, j) IN
         IF Strict(c2) THEN FWLoopJ(c2, n, k, i, j + 1) ELSE c2

\* Variant: the innermost loop runs over j in i..n only (the upper triangle).
RECURSIVE FWLoopIUpperTriangle(_, _, _, _)
FWLoopIUpperTriangle(c, n, k, i) ==
    IF i >= n THEN c
    ELSE LET c2 == FWLoopJ(c, n, k, i, i) IN
         IF Strict(c2) THEN FWLoopIUpperTriangle(c2, n, k, i + 1) ELSE c2

RECURSIVE FWLoopI(_, _, _, _)
FWLoopI(c, n, k, i) ==
    IF i >= n THEN c
    ELSE LET c2 == FWLoopJ(c, n, k, i, 0) IN
         IF Strict(c2) THEN FWLoopI(c2, n, k, i + 1) ELSE c2

RECURSIVE FWLoopK(_, _, _)
FWLoopK(c, n, k) ==
    IF k >= n THEN c
    ELSE LET c2 == FWLoopI(c, n, k, 0) IN
         IF Strict(c2) THEN FWLoopK(c2, n, k + 1) ELSE c2

\* Variant: the outer loop stops one intermediate valve short.
floyd_warshall_one_pass_short(c) == FWLoopK(c, Cardinality(DOMAIN c) - 1, 0)

floyd_warshall(c) == FWLoopK(c, Cardinality(DOMAIN c), 0)

\* Variant: every exit is entered in both directions.
InitialCostsBidirectional(vs) ==
    [i \in Ids(vs) |-> [j \in Ids(vs) |->
        IF j \in vs[i].exits \/ i \in vs[j].exits THEN 1 ELSE U32_MAX]]

InitialCosts(vs) ==
    [i \in Ids(vs) |-> [j \in Ids(vs) |-> IF j \in vs[i].exits THEN 1 ELSE U32_MAX]]

all_pairs_shortest(vs) == floyd_warshall(InitialCosts(vs))

---------------------------------------------------------------------------
(* search.rs: BinaryHeap<State>.  The queue is the heap's backing array    *)
(* (index 0 of the Vec is element 1 of the sequence).  States compare by   *)
(* estimated_total_flow alone (impl Ord for State); push and pop sift as   *)
(* the standard library's binary max-heap does.                            *)

StateLe(a, b) == a.estimated_total_flow <= b.estimated_total_flow

\* Hole at 0-based position pos holding `elt`; move it up while elt > parent.
RECURSIVE SiftUp(_, _, _, _)
SiftUp(data, start, pos, elt) ==
    IF pos > start
    THEN LET parent == (pos - 1) \div 2 IN
         IF StateLe(elt, data[parent + 1])
         THEN [data EXCEPT ![pos + 1] = elt]
         ELSE SiftUp([data EXCEPT ![pos + 1] = data[parent + 1]], start, parent, elt)
    ELSE [data EXCEPT ![pos + 1] = elt]

\* Move the hole at pos down to a leaf along the greater children, then up.
RECURSIVE SiftDownToBottom(_, _, _, _)
SiftDownToBottom(data, start, pos, elt) ==
    LET end == Len(data)
        child == 2 * pos + 1
    IN  IF child <= saturating_sub(end, 2)
        THEN LET c == IF StateLe(data[child + 1], data[child + 2])
                      THEN child + 1 ELSE child
             IN  SiftDownToBottom([data EXCEPT ![pos + 1] = data[c + 1]], start, c, elt)
        ELSE IF child = end - 1
        THEN SiftUp([data EXCEPT ![pos + 1] = data[child + 1]], start, child, elt)
        ELSE SiftUp(data, start, pos, elt)

HeapPush(data, item) == SiftUp(Append(data, item), 0, Len(data), item)

\* The element BinaryHeap::pop returns, and the heap it leaves.
HeapTop(data) == data[1]
HeapPop(data) ==
    LET item == data[Len(data)]
        rest == SubSeq(data, 1, Len(data) - 1)
    IN  IF rest = <<>> THEN rest ELSE SiftDownToBottom(rest, 0, 0, item)

RECURSIVE HeapPushAll(_, _)
HeapPushAll(data, items) ==
    IF items = <<>> THEN data
    ELSE LET pushed == HeapPush(data, Head(items)) IN
         IF Strict(pushed) THEN HeapPushAll(pushed, Tail(items)) ELSE pushed

---------------------------------------------------------------------------
(* search.rs: PlayerState.  The three variants are records with the same   *)
(* fields; `at` holds Travel's `to` as well (PlayerState::destination).    *)

Wait(at, time_left) == [variant |-> "Wait", at |-> at, time_left |-> time_left]
Travel(to, time_left) == [variant |-> "Travel", at |-> to, time_left |-> time_left]
Open(at, time_left) == [variant |-> "Open", at |-> at, time_left |-> time_left]

PlayerState_get_time_till_action(p) == p.time_left

destination(p) == p.at

PlayerState_tick(p, time_passed) ==
    [p EXCEPT !.time_left = saturating_sub(p.time_left, time_passed)]

\* Variant: a valve exactly time_left away counts as accessible.
RECURSIVE SeqFilterCandidatesAtLimit(_, _, _, _, _)
SeqFilterCandidatesAtLimit(ids, state, vs, distance_to, other_player_destinations) ==
    IF ids = <<>> THEN <<>>
    ELSE LET v == Head(ids)
             keep == /\ distance_to[v] <= state.time_left
                     /\ vs[v].flow_rate > 0
                     /\ v \notin other_player_destinations
             rest == SeqFilterCandidatesAtLimit(Tail(ids), state, vs, distance_to,
                                                other_player_destinations)
         IN  IF keep THEN <<Travel(v, distance_to[v])>> \o rest ELSE rest

RECURSIVE SeqFilterCandidates(_, _, _, _, _)
SeqFilterCandidates(ids, state, vs, distance_to, other_player_destinations) ==
    IF ids = <<>> THEN <<>>
    ELSE LET v == Head(ids)
             keep == /\ distance_to[v] < state.time_left
                     /\ vs[v].flow_rate > 0
                     /\ v \notin other_player_destinations
             rest == SeqFilterCandidates(Tail(ids), state, vs, distance_to,
                                         other_player_destinations)
         IN  IF keep THEN <<Travel(v, distance_to[v])>> \o rest ELSE rest

\* Variant: an agent with nothing to do waits with a countdown of 0.
IdleWaitNoCountdown(at, state) ==
    IF state.time_left = 0 THEN <<>> ELSE <<Wait(at, 0)>>

\* Variant: the `state.time_left == 0` test is missing.
IdleWaitAlways(at, state) == <<Wait(at, state.time_left)>>

\* `if results.is_empty() { ... }`: nothing to visit, wait out the clock.
IdleWait(at, state) ==
    IF state.time_left = 0 THEN <<>> ELSE <<Wait(at, state.time_left)>>

\* Variant: an agent that arrives is idle at once, the opening is skipped.
PlayerState_get_next_states_skip_open(p, state, vs, dist) ==
    CASE p.variant = "Wait" ->
            IF p.time_left # 0 THEN <<p>>
            ELSE LET distance_to == dist[p.at]
                     other_player_destinations ==
                         {destination(state.player_states[i]) :
                              i \in DOMAIN state.player_states}
                     results == SeqFilterCandidates(BitSetIter(state.closed_valves),
                                    state, vs, distance_to, other_player_destinations)
                 IN  IF results = <<>> THEN IdleWait(p.at, state) ELSE results
      [] p.variant = "Travel" ->
            IF p.time_left = 0 THEN <<Wait(p.at, 0)>> ELSE <<p>>
      [] p.variant = "Open" ->
            IF p.time_left = 0 THEN <<Wait(p.at, 0)>> ELSE <<p>>

PlayerState_get_next_states(p, state, vs, dist) ==
    CASE p.variant = "Wait" ->
            IF p.time_left # 0 THEN <<p>>
            ELSE LET distance_to == dist[p.at]
                     other_player_destinations ==
                         {destination(state.player_states[i]) :
                              i \in DOMAIN state.player_states}
                     results == SeqFilterCandidates(BitSetIter(state.closed_valves),
                                    state, vs, distance_to, other_player_destinations)
                 IN  IF results = <<>> THEN IdleWait(p.at, state) ELSE results
      [] p.variant = "Travel" ->
            IF p.time_left = 0 THEN <<Open(p.at, TIME_TO_OPEN_VALVE)>> ELSE <<p>>
      [] p.variant = "Open" ->
            IF p.time_left = 0 THEN <<Wait(p.at, 0)>> ELSE <<p>>

---------------------------------------------------------------------------
(* search.rs: State                                                        *)

\* closed_valves sorted by flow_rate with a stable sort: by (flow_rate, id).
RECURSIVE SortByFlowRate(_, _)
SortByFlowRate(S, vs) ==
    IF S = {} THEN <<>>
    ELSE LET m == CHOOSE x \in S : \A y \in S :
                      \/ vs[x].flow_rate < vs[y].flow_rate
                      \/ vs[x].flow_rate = vs[y].flow_rate /\ x <= y
         IN  <<m>> \o SortByFlowRate(S \ {m}, vs)

\* Variant: the valves popped from the sorted list are not inserted into `opened`.
RECURSIVE HeuristicOpenLoopNoInsert(_, _, _)
HeuristicOpenLoopNoInsert(players, opened, sorted) ==
    IF players = 0 THEN [done |-> FALSE, opened |-> opened, sorted |-> sorted]
    ELSE IF sorted = <<>> THEN [done |-> TRUE, opened |-> opened, sorted |-> sorted]
    ELSE HeuristicOpenLoopNoInsert(players - 1, opened,
                                   SubSeq(sorted, 1, Len(sorted) - 1))

\* The inner loop `for _ in 0..player_states.len()`: pops one valve per
\* player; `done` when a pop found the list empty (the early return).
RECURSIVE HeuristicOpenLoop(_, _, _)
HeuristicOpenLoop(players, opened, sorted) ==
    IF players = 0 THEN [done |-> FALSE, opened |-> opened, sorted |-> sorted]
    ELSE IF sorted = <<>> THEN [done |-> TRUE, opened |-> opened, sorted |-> sorted]
    ELSE HeuristicOpenLoop(players - 1, opened \cup {sorted[Len(sorted)]},
                           SubSeq(sorted, 1, Len(sorted) - 1))

RECURSIVE HeuristicLoop(_, _, _, _, _, _)
HeuristicLoop(self, vs, i, total_flow, opened, sorted) ==
    IF i >= self.time_left THEN total_flow
    ELSE LET current_flow == get_current_flow(opened, vs)
             total == total_flow + current_flow
         IN  IF ~Strict(<<total, opened, sorted>>) THEN total
             ELSE IF i % 2 = 0
             THEN LET r == HeuristicOpenLoop(Len(self.player_states), opened, sorted)
                  IN  IF r.done
                      THEN total + current_flow * (self.time_left - i - 1)
                      ELSE HeuristicLoop(self, vs, i + 1, total, r.opened, r.sorted)
             ELSE HeuristicLoop(self, vs, i + 1, total, opened, sorted)

estimated_flow_heuristic(self, vs) ==
    HeuristicLoop(self, vs, 0, 0, self.opened_valves,
                  SortByFlowRate(self.closed_valves, vs))

update_estimated_total_flow(self, vs) ==
    [self EXCEPT !.estimated_total_flow =
                     self.accumulated_flow + estimated_flow_heuristic(self, vs)]

\* Variant: the longest countdown instead of the shortest.
State_get_time_till_action_max(self) ==
    IF self.player_states = <<>> THEN 0
    ELSE SetMax({PlayerState_get_time_till_action(self.player_states[i]) :
                     i \in DOMAIN self.player_states})

State_get_time_till_action(self) ==
    IF self.player_states = <<>> THEN 0
    ELSE SetMin({PlayerState_get_time_till_action(self.player_states[i]) :
                     i \in DOMAIN self.player_states})

\* Variant: the clock is not advanced.
State_tick_keeps_clock(self, vs) ==
    LET time_passed == State_get_time_till_action(self)
        current_flow == get_current_flow(self.opened_valves, vs)
    IN  [self EXCEPT
            !.accumulated_flow = @ + current_flow * Min2(time_passed, self.time_left),
            !.player_states = [i \in DOMAIN @ |-> PlayerState_tick(@[i], time_passed)]]

\* Variant: a valve whose opening completes in this tick already counts for it.
State_tick_counts_completed(self, vs) ==
    LET time_passed == State_get_time_till_action(self)
        completing == {self.player_states[i].at : i \in {j \in DOMAIN self.player_states :
                          /\ self.player_states[j].variant = "Open"
                          /\ self.player_states[j].time_left = time_passed}}
        current_flow == get_current_flow(self.opened_valves \cup completing, vs)
    IN  [self EXCEPT
            !.accumulated_flow = @ + current_flow * Min2(time_passed, self.time_left),
            !.time_left = saturating_sub(@, time_passed),
            !.player_states = [i \in DOMAIN @ |-> PlayerState_tick(@[i], time_passed)]]

State_tick(self, vs) ==
    LET time_passed == State_get_time_till_action(self)
        current_flow == get_current_flow(self.opened_valves, vs)
    IN  [self EXCEPT
            !.accumulated_flow = @ + current_flow * Min2(time_passed, self.time_left),
            !.time_left = saturating_sub(@, time_passed),
            !.player_states = [i \in DOMAIN @ |-> PlayerState_tick(@[i], time_passed)]]

CompletedOpens(self) ==
    {self.player_states[i].at : i \in {j \in DOMAIN self.player_states :
         /\ self.player_states[j].variant = "Open"
         /\ self.player_states[j].time_left = 0}}

\* Variant: a completed opening replaces the opened set instead of joining it.
apply_player_actions_replace(self) ==
    [self EXCEPT !.opened_valves = IF CompletedOpens(self) = {} THEN @
                                   ELSE CompletedOpens(self),
                 !.closed_valves = @ \ CompletedOpens(self)]

\* Variant: an opened valve stays in closed_valves.
apply_player_actions_keeps_closed(self) ==
    [self EXCEPT !.opened_valves = @ \cup CompletedOpens(self)]

apply_player_actions(self) ==
    [self EXCEPT !.opened_valves = @ \cup CompletedOpens(self),
                 !.closed_valves = @ \ CompletedOpens(self)]

\* `for next_player_state in ... { for state in &states { ... } }`
RECURSIVE CrossInner(_, _)
CrossInner(states, next_player_state) ==
    IF states = <<>> THEN <<>>
    ELSE <<[Head(states) EXCEPT !.player_states = Append(@, next_player_state)]>>
         \o CrossInner(Tail(states), next_player_state)

\* Variant: only the first candidate of an agent is combined.
CrossOuterFirstOnly(states, nexts) ==
    IF nexts = <<>> THEN <<>>
    ELSE CrossInner(states, Head(nexts))

RECURSIVE CrossOuter(_, _)
CrossOuter(states, nexts) ==
    IF nexts = <<>> THEN <<>>
    ELSE CrossInner(states, Head(nexts)) \o CrossOuter(states, Tail(nexts))

RECURSIVE CrossPlayers(_, _, _, _, _)
CrossPlayers(self, vs, dist, k, states) ==
    IF k > Len(self.player_states) THEN states
    ELSE CrossPlayers(self, vs, dist, k + 1,
             CrossOuter(states,
                 PlayerState_get_next_states(self.player_states[k], self, vs, dist)))

\* Variant: the children start from a state with no valve open.
State_get_next_states_forgets_opened(self, vs, dist) ==
    LET states == CrossPlayers(self, vs, dist, 1,
                      <<[self EXCEPT !.player_states = <<>>,
                                     !.opened_valves = {},
                                     !.closed_valves = @ \cup self.opened_valves]>>)
    IN  [i \in DOMAIN states |-> update_estimated_total_flow(states[i], vs)]

State_get_next_states(self, vs, dist) ==
    LET states == CrossPlayers(self, vs, dist, 1,
                      <<[self EXCEPT !.player_states = <<>>]>>)
    IN  [i \in DOMAIN states |-> update_estimated_total_flow(states[i], vs)]

---------------------------------------------------------------------------
(* dynamic_programming.rs.  get_optimal_total_flow_internal recurses on    *)
(* time_left - 1 only, and memoises every (state, time_left) it computes.  *)
(* The model fills the memo table level by level: `c` holds the entries    *)
(* of the cache whose key has time_left - 1, which is what the recursive   *)
(* calls of level time_left find or compute.                               *)

DPState(at, open) == [at |-> at, open |-> open]

DPStates(vs) ==
    {DPState(at, open) : at \in Ids(vs),
                         open \in SUBSET {v \in Ids(vs) : vs[v].flow_rate > 0}}

\* The recursive call get_optimal_total_flow_internal(state, _, time_left, cache).
DPCall(state, time_left, c) == IF time_left = 0 THEN 0 ELSE c[state]

get_optimal_total_flow_internal(state, vs, time_left, c) ==
    IF time_left = 0 THEN 0
    ELSE LET current_flow == get_current_flow(state.open, vs)
             current_valve == vs[state.at]
             score_after_opening ==
                 IF current_valve.id \notin state.open /\ current_valve.flow_rate > 0
                 THEN DPCall(DPState(state.at, state.open \cup {current_valve.id}),
                             time_left - 1, c)
                 ELSE 0
             scores_after_moving ==
                 {DPCall(DPState(exit, state.open), time_left - 1, c) :
                      exit \in current_valve.exits}
         IN  current_flow
             + Max2(IF scores_after_moving = {} THEN 0 ELSE SetMax(scores_after_moving),
                    score_after_opening)

---------------------------------------------------------------------------
(* The inputs.  A valve table is what parse_valves yields: entry i has id  *)
(* i, and the line format gives every valve at least one exit.             *)

ValveTable(flow, exits) ==
    [i \in DOMAIN exits |-> [id |-> i, flow_rate |-> flow[i], exits |-> exits[i]]]

Layouts ==
    { (0 :> {0}),
      (0 :> {1} @@ 1 :> {0}),
      (0 :> {0, 1} @@ 1 :> {1}),
      (0 :> {1} @@ 1 :> {0, 2} @@ 2 :> {1}),
      (0 :> {1, 2} @@ 1 :> {0} @@ 2 :> {0}),
      (0 :> {1} @@ 1 :> {0} @@ 2 :> {2}),
      (0 :> {1} @@ 1 :> {2} @@ 2 :> {0}),
      (0 :> {1, 2} @@ 1 :> {0, 2} @@ 2 :> {0, 1}) }

ValveTables ==
    UNION {{ValveTable(flow, exits) : flow \in [DOMAIN exits -> 0..MaxFlow]} :
               exits \in Layouts}

StartLists(vs) == UNION {[1..a -> Ids(vs)] : a \in 1..MaxAgents}

\* The 10-valve example of lib.rs (SMALL_INPUT) after normalize_valves:
\* AA=0, BB=1, CC=2, DD=3, EE=4, FF=5, GG=6, HH=7, II=8, JJ=9.
SMALL_INPUT ==
    ValveTable(
        (0 :> 0 @@ 1 :> 13 @@ 2 :> 2 @@ 3 :> 20 @@ 4 :> 3 @@
         5 :> 0 @@ 6 :> 0 @@ 7 :> 22 @@ 8 :> 0 @@ 9 :> 21),
        (0 :> {3, 8, 1} @@ 1 :> {2, 0} @@ 2 :> {3, 1} @@ 3 :> {2, 0, 4} @@
         4 :> {5, 3} @@ 5 :> {4, 6} @@ 6 :> {5, 7} @@ 7 :> {6} @@
         8 :> {0, 9} @@ 9 :> {8}))

NoState == [popped |-> <<>>, ticked |-> <<>>, children |-> <<>>]
EmptyCache == [s \in {} |-> 0]
NoMatrix == <<>>

InitialState(starts, vs, time_left) ==
    [player_states |-> [i \in DOMAIN starts |-> Wait(starts[i], 0)],
     opened_valves |-> {},
     closed_valves |-> Ids(vs),
     accumulated_flow |-> 0,
     time_left |-> time_left,
     estimated_total_flow |-> U32_MAX]

InitRest ==
    /\ parsed = <<>>
    /\ pc = IF Len(starting_ats) = 1 THEN "dp" ELSE "search"
    /\ cache = EmptyCache
    /\ dp_time = 0
    /\ dp_result = 0
    /\ distances = NoMatrix
    /\ state_priority_queue = <<>>
    /\ best_solution_so_far = U32_MIN
    /\ result = 0
    /\ expanded = NoState
    /\ costs = NoMatrix

Init ==
    /\ valves \in ValveTables
    /\ starting_ats \in StartLists(valves)
    /\ time_budget \in 0..MaxTime
    /\ InitRest

---------------------------------------------------------------------------
(* dynamic_programming::find_optimal_total_flow, for one agent.            *)

DPStep ==
    /\ pc = "dp"
    /\ dp_time < time_budget
    /\ cache' = [st \in DPStates(valves) |->
                     get_optimal_total_flow_internal(st, valves, dp_time + 1, cache)]
    /\ dp_time' = dp_time + 1
    /\ UNCHANGED <<parsed, valves, starting_ats, time_budget, pc, dp_result, distances,
                   state_priority_queue, best_solution_so_far, result, expanded, costs>>

DPReturn ==
    /\ pc = "dp"
    /\ dp_time = time_budget
    /\ dp_result' = DPCall(DPState(starting_ats[1], {}), time_budget, cache)
    /\ pc' = "search"
    /\ UNCHANGED <<parsed, valves, starting_ats, time_budget, cache, dp_time, distances,
                   state_priority_queue, best_solution_so_far, result, expanded, costs>>

---------------------------------------------------------------------------
(* search::find_optimal_total_flow                                         *)

\* Variant: a child whose estimate equals the best so far is kept as well.
RECURSIVE SurvivorsWithTies(_, _)
SurvivorsWithTies(children, best) ==
    IF children = <<>> THEN <<>>
    ELSE IF Head(children).estimated_total_flow >= best
         THEN <<Head(children)>> \o SurvivorsWithTies(Tail(children), best)
         ELSE SurvivorsWithTies(Tail(children), best)

RECURSIVE Survivors(_, _)
Survivors(children, best) ==
    IF children = <<>> THEN <<>>
    ELSE IF Head(children).estimated_total_flow > best
         THEN <<Head(children)>> \o Survivors(Tail(children), best)
         ELSE Survivors(Tail(children), best)

SearchStart ==
    /\ pc = "search"
    /\ distances' = all_pairs_shortest(valves)
    /\ state_priority_queue' =
           HeapPush(<<>>, InitialState(starting_ats, valves, time_budget))
    /\ best_solution_so_far' = U32_MIN
    /\ pc' = "loop"
    /\ UNCHANGED <<parsed, valves, starting_ats, time_budget, cache, dp_time, dp_result,
                   result, expanded, costs>>

\* Variant: the best so far is not raised by the popped state.
SearchStepKeepsBest ==
    /\ pc = "loop"
    /\ state_priority_queue # <<>>
    /\ LET popped == HeapTop(state_priority_queue)
           ticked == State_tick(popped, valves)
           best == best_solution_so_far
           applied == apply_player_actions(ticked)
           children == State_get_next_states(applied, valves, distances)
       IN  /\ best_solution_so_far' = best
           /\ state_priority_queue' =
                  HeapPushAll(HeapPop(state_priority_queue), Survivors(children, best))
           /\ expanded' = [popped |-> popped, ticked |-> applied, children |-> children]
    /\ UNCHANGED <<parsed, valves, starting_ats, time_budget, pc, cache, dp_time, dp_result,
                   distances, result, costs>>

SearchStep ==
    /\ pc = "loop"
    /\ state_priority_queue # <<>>
    /\ LET popped == HeapTop(state_priority_queue)
           ticked == State_tick(popped, valves)
           best == Max2(best_solution_so_far, ticked.accumulated_flow)
           applied == apply_player_actions(ticked)
           children == State_get_next_states(applied, valves, distances)
       IN  /\ best_solution_so_far' = best
           /\ state_priority_queue' =
                  HeapPushAll(HeapPop(state_priority_queue), Survivors(children, best))
           /\ expanded' = [popped |-> popped, ticked |-> applied, children |-> children]
    /\ UNCHANGED <<parsed, valves, starting_ats, time_budget, pc, cache, dp_time, dp_result,
                   distances, result, costs>>

SearchReturn ==
    /\ pc = "loop"
    /\ state_priority_queue = <<>>
    /\ result' = best_solution_so_far
    /\ pc' = "done"
    /\ UNCHANGED <<parsed, valves, starting_ats, time_budget, cache, dp_time, dp_result,
                   distances, state_priority_queue, best_solution_so_far, expanded, costs>>

Next == DPStep \/ DPReturn \/ SearchStart \/ SearchStep \/ SearchReturn

Spec == Init /\ [][Next]_vars

---------------------------------------------------------------------------
(* The reference scenarios on the 10-valve example: one agent at AA with   *)
(* 30 minutes (lib.rs tests), and two agents at AA with 26 minutes.        *)

InitExampleOne ==
    /\ valves = SMALL_INPUT
    /\ starting_ats = <<0>>
    /\ time_budget = 30
    /\ InitRest

SpecExampleOne == InitExampleOne /\ [][Next]_vars

InitExampleTwo ==
    /\ valves = SMALL_INPUT
    /\ starting_ats = <<0, 0>>
    /\ time_budget = 26
    /\ InitRest

NextSearch == SearchStart \/ SearchStep \/ SearchReturn

SpecExampleTwo == InitExampleTwo /\ [][NextSearch]_vars

---------------------------------------------------------------------------
(* The search on its own, for one agent as well (lib.rs calls it with one  *)
(* and with two start valves), on a line and on a one-way ring of valves.  *)

SearchLayouts ==
    { (0 :> {1} @@ 1 :> {0, 2} @@ 2 :> {1}),
      (0 :> {1} @@ 1 :> {2} @@ 2 :> {0}) }

InitSearch ==
    /\ \E exits \in SearchLayouts : \E flow \in [DOMAIN exits -> 0..MaxFlow] :
           valves = ValveTable(flow, exits)
    /\ starting_ats \in StartLists(valves)
    /\ time_budget \in 0..MaxTime
    /\ parsed = <<>>
    /\ pc = "search"
    /\ cache = EmptyCache
    /\ dp_time = 0
    /\ dp_result = 0
    /\ distances = NoMatrix
    /\ state_priority_queue = <<>>
    /\ best_solution_so_far = U32_MIN
    /\ result = 0
    /\ expanded = NoState
    /\ costs = NoMatrix

SpecSearch == InitSearch /\ [][NextSearch]_vars

---------------------------------------------------------------------------
(* The search with the order among equals left open.  State's Ord compares *)
(* estimated_total_flow only, so which of several greatest states pop()    *)
(* returns depends on the heap's layout, hence on the order of the pushes. *)
(* Here the queue is the list of its states in a fixed order that depends  *)
(* on its content only, and any greatest state may be popped.              *)

RemoveAt(seq, i) == SubSeq(seq, 1, i - 1) \o SubSeq(seq, i + 1, Len(seq))

\* The states of seq, equal ones together, in an order fixed by its content.
RECURSIVE ContentOrder(_)
ContentOrder(seq) ==
    IF seq = <<>> THEN <<>>
    ELSE LET x == CHOOSE y \in {seq[i] : i \in DOMAIN seq} : TRUE
             Same(z) == z = x
             Other(z) == z # x
         IN  SelectSeq(seq, Same) \o ContentOrder(SelectSeq(seq, Other))

IsGreatest(seq, i) ==
    \A j \in DOMAIN seq : seq[j].estimated_total_flow <= seq[i].estimated_total_flow

SearchStepAnyTie ==
    /\ pc = "loop"
    /\ state_priority_queue # <<>>
    /\ \E i \in DOMAIN state_priority_queue :
           /\ IsGreatest(state_priority_queue, i)
           /\ LET popped == state_priority_queue[i]
                  ticked == State_tick(popped, valves)
                  best == Max2(best_solution_so_far, ticked.accumulated_flow)
                  applied == apply_player_actions(ticked)
                  children == State_get_next_states(applied, valves, distances)
              IN  /\ best_solution_so_far' = best
                  /\ state_priority_queue' =
                         ContentOrder(RemoveAt(state_priority_queue, i)
                                          \o Survivors(children, best))
    /\ UNCHANGED <<parsed, valves, starting_ats, time_budget, pc, cache, dp_time, dp_result,
                   distances, result, expanded, costs>>

NextAnyTie == SearchStart \/ SearchStepAnyTie \/ SearchReturn

\* Three valves in a line, the middle one joined to both ends.
LineLayout == (0 :> {1} @@ 1 :> {0, 2} @@ 2 :> {1})

InitAnyTie ==
    /\ \E flow \in [DOMAIN LineLayout -> 0..MaxFlow] :
           valves = ValveTable(flow, LineLayout)
    /\ starting_ats \in StartLists(valves)
    /\ time_budget \in 0..MaxTime
    /\ parsed = <<>>
    /\ pc = "search"
    /\ cache = EmptyCache
    /\ dp_time = 0
    /\ dp_result = 0
    /\ distances = NoMatrix
    /\ state_priority_queue = <<>>
    /\ best_solution_so_far = U32_MIN
    /\ result = 0
    /\ expanded = NoState
    /\ costs = NoMatrix

SpecAnyTie == InitAnyTie /\ [][NextAnyTie]_vars

---------------------------------------------------------------------------
(* search::find_optimal_total_flow as a function of its arguments: the     *)
(* loop of SearchStep run until the queue is empty.                        *)

RECURSIVE SearchLoop(_, _, _, _)
SearchLoop(queue, best, vs, dist) ==
    IF queue = <<>> THEN best
    ELSE LET ticked == State_tick(HeapTop(queue), vs)
             best2 == Max2(best, ticked.accumulated_flow)
             children == State_get_next_states(apply_player_actions(ticked), vs, dist)
             queue2 == HeapPushAll(HeapPop(queue), Survivors(children, best2))
         IN  IF Strict(<<best2, queue2>>) THEN SearchLoop(queue2, best2, vs, dist)
             ELSE best2

find_optimal_total_flow(starts, vs, time_left) ==
    SearchLoop(HeapPush(<<>>, InitialState(starts, vs, time_left)), U32_MIN, vs,
               all_pairs_shortest(vs))

---------------------------------------------------------------------------
(* Valve tables with one more valve that no start valve reaches: a table   *)
(* of two or three valves, and a last valve that only leads to itself.     *)

BaseLayouts ==
    { (0 :> {1} @@ 1 :> {0}),
      (0 :> {0} @@ 1 :> {2} @@ 2 :> {0, 1}) }

\* The table `vs` followed by a valve of the given flow rate and exits.
PushValve(vs, flow_rate, exits) ==
    LET n == NumValves(vs)
    IN  [i \in 0..n |-> IF i < n THEN vs[i]
                        ELSE [id |-> n, flow_rate |-> flow_rate, exits |-> exits]]

\* The table `vs` without its last valve.
PopValve(vs) == [i \in 0..(NumValves(vs) - 2) |-> vs[i]]

InitUnreachable ==
    /\ \E exits \in BaseLayouts : \E flow \in [DOMAIN exits -> 0..MaxFlow] :
       \E extra \in 0..MaxFlow :
           /\ valves = PushValve(ValveTable(flow, exits), extra, {Cardinality(DOMAIN exits)})
           /\ starting_ats \in StartLists(ValveTable(flow, exits))
    /\ time_budget \in 0..MaxTime
    /\ InitRest

SpecUnreachable == InitUnreachable /\ [][Next]_vars

---------------------------------------------------------------------------
(* The dynamic-programming solver on its own, on valve tables that also    *)
(* have valves without exits (the function takes any table).               *)

DeadEndLayouts ==
    { (0 :> {}),
      (0 :> {0}),
      (0 :> {1} @@ 1 :> {}),
      (0 :> {1} @@ 1 :> {0}),
      (0 :> {1, 2} @@ 1 :> {} @@ 2 :> {0}) }

InitDP ==
    /\ \E exits \in DeadEndLayouts : \E flow \in [DOMAIN exits -> 0..MaxFlow] :
           /\ valves = ValveTable(flow, exits)
           /\ starting_ats \in [1..1 -> DOMAIN exits]
    /\ time_budget \in 0..MaxTime
    /\ InitRest

NextDP == DPStep \/ DPReturn

SpecDP == InitDP /\ [][NextDP]_vars

\* Both solvers in turn on those tables, as lib.rs runs them on its example.
SpecDeadEnd == InitDP /\ [][Next]_vars

---------------------------------------------------------------------------
(* The distance solver on its own: all_pairs_shortest on every valve table *)
(* of up to MaxValves valves, and floyd_warshall on cost matrices given    *)
(* directly, with a zero diagonal as in test_floyd_warshall.               *)

ExitLayouts(n) == [0..(n - 1) -> (SUBSET (0..(n - 1))) \ {{}}]

NoFlow(n) == [i \in 0..(n - 1) |-> 0]

ZeroDiagonal(c) == [i \in DOMAIN c |-> [j \in DOMAIN c |-> IF i = j THEN 0 ELSE c[i][j]]]

InitDistances ==
    /\ \E n \in 1..MaxValves : \E exits \in ExitLayouts(n) :
           \/ /\ valves = ValveTable(NoFlow(n), exits)
              /\ costs = NoMatrix
              /\ pc = "dist"
           \/ /\ valves = <<>>
              /\ costs = ZeroDiagonal(InitialCosts(ValveTable(NoFlow(n), exits)))
              /\ pc = "fw"
    /\ parsed = <<>>
    /\ starting_ats = <<>>
    /\ time_budget = 0
    /\ cache = EmptyCache
    /\ dp_time = 0
    /\ dp_result = 0
    /\ distances = NoMatrix
    /\ state_priority_queue = <<>>
    /\ best_solution_so_far = U32_MIN
    /\ result = 0
    /\ expanded = NoState

AllPairsShortest ==
    /\ pc = "dist"
    /\ costs' = InitialCosts(valves)
    /\ distances' = all_pairs_shortest(valves)
    /\ pc' = "dist_done"
    /\ UNCHANGED <<parsed, valves, starting_ats, time_budget, cache, dp_time, dp_result,
                   state_priority_queue, best_solution_so_far, result, expanded>>

FloydWarshall ==
    /\ pc = "fw"
    /\ distances' = floyd_warshall(costs)
    /\ pc' = "fw_done"
    /\ UNCHANGED <<parsed, valves, starting_ats, time_budget, cache, dp_time, dp_result,
                   state_priority_queue, best_solution_so_far, result, expanded, costs>>

\* floyd_warshall run again, on the matrix a first run produced.
FloydWarshallAgain ==
    /\ pc \in {"dist_done", "fw_done"}
    /\ costs' = distances
    /\ distances' = floyd_warshall(distances)
    /\ pc' = "again_done"
    /\ UNCHANGED <<parsed, valves, starting_ats, time_budget, cache, dp_time, dp_result,
                   state_priority_queue, best_solution_so_far, result, expanded>>

NextDistances == AllPairsShortest \/ FloydWarshall \/ FloydWarshallAgain

SpecDistances == InitDistances /\ [][NextDistances]_vars

---------------------------------------------------------------------------
(* lib.rs: normalize_valves.  A parsed Valve has a name (`id`), a flow rate *)
(* and the names of its exits; `mapping` is the HashMap from names to ids. *)

Names == {"AA", "BB", "CC"}

Valve(id, flow_rate, exits) == [id |-> id, flow_rate |-> flow_rate, exits |-> exits]

RECURSIVE Flatten(_)
Flatten(seqs) == IF seqs = <<>> THEN <<>> ELSE Head(seqs) \o Flatten(Tail(seqs))

\* The names in the order the loop sees them: every valve's id, then every
\* valve's exits.
ChainedIds(vs) ==
    [k \in DOMAIN vs |-> vs[k].id] \o Flatten([k \in DOMAIN vs |-> vs[k].exits])

\* `for id in ... { if !mapping.contains_key(id) { insert(id, count); count += 1 } }`
RECURSIVE AssignIds(_, _, _)
AssignIds(ids, mapping, count) ==
    IF ids = <<>> THEN mapping
    ELSE IF Head(ids) \in DOMAIN mapping
         THEN AssignIds(Tail(ids), mapping, count)
         ELSE AssignIds(Tail(ids), mapping @@ (Head(ids) :> count), count + 1)

Mapping(vs) == AssignIds(ChainedIds(vs), ("AA" :> 0), 1)

\* Insert `v` into a list sorted by id, after the entries with the same id.
RECURSIVE InsertById(_, _)
InsertById(sorted, v) ==
    IF sorted = <<>> THEN <<v>>
    ELSE IF Head(sorted).id <= v.id THEN <<Head(sorted)>> \o InsertById(Tail(sorted), v)
         ELSE <<v>> \o sorted

\* result.sort_by_key(|valve| valve.id): a stable sort.
RECURSIVE SortById(_)
SortById(list) ==
    IF list = <<>> THEN <<>>
    ELSE InsertById(SortById(SubSeq(list, 1, Len(list) - 1)), list[Len(list)])

normalize_valves(vs) ==
    LET mapping == Mapping(vs)
        unsorted == [k \in DOMAIN vs |->
                      [id |-> mapping[vs[k].id],
                       flow_rate |-> vs[k].flow_rate,
                       exits |-> {mapping[vs[k].exits[e]] : e \in DOMAIN vs[k].exits}]]
        sorted == SortById(unsorted)
    IN  [i \in 0..(Len(sorted) - 1) |-> sorted[i + 1]]

ExitNames == UNION {[1..m -> Names] : m \in 1..MaxExits}

InitNormalize ==
    /\ \E m \in 1..MaxParsed :
           parsed \in [1..m -> {Valve(id, f, exits) :
                                   id \in Names, f \in {0, 5}, exits \in ExitNames}]
    /\ valves = <<>>
    /\ starting_ats = <<>>
    /\ time_budget = 0
    /\ pc = "normalize"
    /\ cache = EmptyCache
    /\ dp_time = 0
    /\ dp_result = 0
    /\ distances = NoMatrix
    /\ state_priority_queue = <<>>
    /\ best_solution_so_far = U32_MIN
    /\ result = 0
    /\ expanded = NoState
    /\ costs = NoMatrix

NormalizeValves ==
    /\ pc = "normalize"
    /\ valves' = normalize_valves(parsed)
    /\ pc' = "normalized"
    /\ UNCHANGED <<parsed, starting_ats, time_budget, cache, dp_time, dp_result,
                   distances, state_priority_queue, best_solution_so_far, result,
                   expanded, costs>>

NextNormalize == NormalizeValves

SpecNormalize == InitNormalize /\ [][NextNormalize]_vars

---------------------------------------------------------------------------
(* Reference definitions the claims compare the program with.              *)

AllIds == DOMAIN valves

\* The valves reachable in exactly d hops from a valve of S.
RECURSIVE Walk(_, _, _)
Walk(vs, S, d) ==
    IF d = 0 THEN S ELSE Walk(vs, UNION {vs[x].exits : x \in S}, d - 1)

\* The least number (>= 1) of hops of a directed path from i to j, or the sentinel.
MinHops(vs, i, j) ==
    LET lengths == {d \in 1..NumValves(vs) : j \in Walk(vs, {i}, d)}
    IN  IF lengths = {} THEN U32_MAX ELSE SetMin(lengths)

\* What one agent standing on `at` can do in one tick: move along an exit or
\* open the closed valve it stands on.
AgentMoves(vs, at, open) ==
    {[at |-> e, opens |-> {}] : e \in vs[at].exits}
        \cup (IF at \in open THEN {} ELSE {[at |-> at, opens |-> {at}]})

RECURSIVE JointMoves(_, _, _, _)
JointMoves(vs, ats, open, k) ==
    IF k > Len(ats) THEN {[ats |-> <<>>, opens |-> {}]}
    ELSE {[ats |-> <<m.at>> \o r.ats, opens |-> m.opens \cup r.opens] :
              m \in AgentMoves(vs, ats[k], open),
              r \in JointMoves(vs, ats, open, k + 1)}

\* The greatest total flow of any schedule of t ticks: the valves open at the
\* start of a tick yield their flow in it.
RECURSIVE MaxScheduleFlow(_, _, _, _)
MaxScheduleFlow(vs, ats, open, t) ==
    IF t = 0 THEN 0
    ELSE SumFlow(open, vs)
         + SetMax({MaxScheduleFlow(vs, jm.ats, open \cup jm.opens, t - 1) :
                       jm \in JointMoves(vs, ats, open, 1)})

\* The greatest accumulated_flow the search can reach from a queued state when
\* nothing is pruned: the state is ticked, and so are all its descendants.
RECURSIVE BestFromState(_)
BestFromState(s) ==
    LET ticked == apply_player_actions(State_tick(s, valves))
        children == State_get_next_states(ticked, valves, distances)
    IN  SetMax({ticked.accumulated_flow}
               \cup {BestFromState(children[i]) : i \in DOMAIN children})

Queued == {state_priority_queue[i] : i \in DOMAIN state_priority_queue}

TotalFlowRate == SumFlow(AllIds, valves)

---------------------------------------------------------------------------
(* The claims.                                                             *)

\* C1: the search returns the maximum total flow of any schedule of the agents
\* (per tick an agent moves one hop or opens the closed valve it stands on).
C1_SearchReturnsMaximum ==
    pc = "done" => result = MaxScheduleFlow(valves, starting_ats, {}, time_budget)

\* C2: for one agent the search and the dynamic-programming solver return the
\* same value, for every valve table, start and time budget.
C2_SearchAgreesWithDP ==
    (pc = "done" /\ Len(starting_ats) = 1) => result = dp_result

\* C3: the estimate of every queued state is at least its accumulated flow plus
\* the most flow still obtainable from it (the heuristic never underestimates).
C3_HeuristicAdmissible ==
    pc = "loop" => \A s \in Queued : s.estimated_total_flow >= BestFromState(s)

\* C4: on the 10-valve example, one agent at AA and 30 minutes, both the search
\* and the dynamic-programming solver return 1651.
C4_ExampleOneAgent ==
    pc = "done" => (result = 1651 /\ dp_result = 1651)

C4_Witness ==
    /\ pc = "done"
    /\ valves = SMALL_INPUT /\ starting_ats = <<0>> /\ time_budget = 30
    /\ dp_time = 30

\* C5: on the 10-valve example, two agents at AA and 26 minutes, the search
\* returns 1707.
C5_ExampleTwoAgents ==
    pc = "done" => result = 1707

C5_Witness ==
    /\ pc = "done"
    /\ valves = SMALL_INPUT /\ starting_ats = <<0, 0>> /\ time_budget = 26
    /\ best_solution_so_far > 0

\* Every id the next loop iteration uses as an index is an index of the valve
\* table and of the distance matrix.
IndexesInRange ==
    \A s \in Queued :
        /\ s.opened_valves \subseteq DOMAIN valves
        /\ s.closed_valves \subseteq DOMAIN valves
        /\ \A i \in DOMAIN s.player_states :
               /\ s.player_states[i].at \in DOMAIN distances
               /\ s.player_states[i].at \in DOMAIN valves

\* A natural number that measures how far a search state is from the end of
\* its path: the time left, then the agents whose countdown is 0 (an agent
\* that finished opening still has to become idle, so it counts twice).
AgentRank(p) ==
    IF p.time_left # 0 THEN 0 ELSE IF p.variant = "Open" THEN 2 ELSE 1

RECURSIVE SumAgentRank(_, _)
SumAgentRank(ps, k) ==
    IF k > Len(ps) THEN 0 ELSE AgentRank(ps[k]) + SumAgentRank(ps, k + 1)

Rank(s) ==
    (2 * Len(s.player_states) + 1) * s.time_left + SumAgentRank(s.player_states, 1)

\* C6: the search loop terminates and fails nowhere on the way: every state a
\* loop iteration generates has a smaller rank than the state it popped (the
\* search tree is finitely branching, so it is finite and the queue runs empty
\* after finitely many pops), and no index is out of range.
C6_SearchTerminates ==
    /\ IndexesInRange
    /\ \A i \in DOMAIN expanded.children :
           Rank(expanded.children[i]) < Rank(expanded.popped)

\* A two-agent search over the whole time budget has returned, after an
\* iteration in which no time passed (a zero-duration tick).
C6_Witness ==
    /\ pc = "done"
    /\ Len(starting_ats) = 2
    /\ time_budget = MaxTime
    /\ result > 0
    /\ expanded.popped.time_left = expanded.ticked.time_left

\* C7: best_solution_so_far, and the value returned, never exceed
\* sum(flow_rate) * time_budget.
C7_TrivialUpperBound ==
    /\ best_solution_so_far <= TotalFlowRate * time_budget
    /\ result <= TotalFlowRate * time_budget

C7_Witness ==
    /\ pc = "done"
    /\ result > 0
    /\ result = best_solution_so_far
    /\ 2 * result > TotalFlowRate * time_budget

\* C8: distance[i][i] = 0 for every valve i of the matrix of all_pairs_shortest.
C8_DiagonalZero ==
    pc = "dist_done" => \A i \in DOMAIN distances : distances[i][i] = 0

\* C9: for i # j, distance[i][j] is the least number of hops of a directed path
\* from i to j, and the sentinel exactly when there is no path.
C9_MinimumHops ==
    pc = "dist_done" =>
        \A i, j \in DOMAIN distances :
            i # j => /\ distances[i][j] = MinHops(valves, i, j)
                     /\ (distances[i][j] = U32_MAX <=>
                             \A d \in 1..NumValves(valves) : j \notin Walk(valves, {i}, d))

C9_Witness ==
    /\ pc = "dist_done"
    /\ \E i, j \in DOMAIN distances : i # j /\ distances[i][j] = U32_MAX
    /\ \E i, j \in DOMAIN distances : i # j /\ distances[i][j] = 2 /\ costs[i][j] = U32_MAX

\* C10: the matrix floyd_warshall returns satisfies the triangle inequality,
\* the sum saturating at the sentinel.
C10_TriangleInequality ==
    pc \in {"dist_done", "fw_done"} =>
        \A i, j, k \in DOMAIN distances :
            distances[i][j] <= saturating_add(distances[i][k], distances[k][j])

C10_Witness ==
    /\ pc = "fw_done"
    /\ \E i, j \in DOMAIN distances : costs[i][j] = U32_MAX /\ distances[i][j] = 2
    /\ \E i, j \in DOMAIN distances : distances[i][j] = U32_MAX

SymmetricExits(vs) ==
    \A i, j \in DOMAIN vs : (j \in vs[i].exits) <=> (i \in vs[j].exits)

\* C11: when the exit relation is symmetric, the matrix of all_pairs_shortest is
\* symmetric: distance[i][j] = distance[j][i] for all i, j.
C11_SymmetricDistances ==
    (pc = "dist_done" /\ SymmetricExits(valves)) =>
        \A i, j \in DOMAIN distances : distances[i][j] = distances[j][i]

C11_Witness ==
    /\ pc = "dist_done"
    /\ SymmetricExits(valves)
    /\ \E i, j \in DOMAIN distances :
           i # j /\ distances[i][j] = 2 /\ distances[j][i] = 2

\* C12: floyd_warshall is idempotent: run on a matrix it produced, it returns
\* that matrix unchanged.
C12_Idempotent ==
    pc = "again_done" => distances = costs

C12_Witness ==
    /\ pc = "again_done"
    /\ distances = costs
    /\ \E i, j \in DOMAIN distances : i # j /\ distances[i][j] = 2
    /\ \E i \in DOMAIN distances : distances[i][i] = 3

\* The valves reachable from a valve of S in any number of hops (S included).
Reach(vs, S) == UNION {Walk(vs, S, d) : d \in 0..NumValves(vs)}

StartValves == {starting_ats[i] : i \in DOMAIN starting_ats}

\* The search states at hand: the queued ones and those of the last iteration.
SearchStates ==
    Queued \cup {expanded.children[i] : i \in DOMAIN expanded.children}
           \cup (IF expanded = NoState THEN {} ELSE {expanded.popped, expanded.ticked})

ZeroFlow == \A v \in DOMAIN valves : valves[v].flow_rate = 0

\* C15: when every valve has flow_rate 0 the search returns 0, for every time
\* budget and number of agents.
C15_ZeroFlowGraph ==
    ZeroFlow => /\ pc = "loop" => best_solution_so_far = 0
                /\ pc = "done" => result = 0

C15_Witness ==
    /\ pc = "done"
    /\ ZeroFlow
    /\ result = 0
    /\ time_budget = MaxTime
    /\ Len(starting_ats) = 2
    /\ NumValves(valves) = 3

\* C16: with time_budget 0 the search returns 0, its only loop iteration
\* generates no child state, and the queue never holds one.
C16_ZeroTimeBudget ==
    time_budget = 0 =>
        /\ pc = "done" => result = 0
        /\ (pc = "loop" /\ expanded = NoState) =>
               state_priority_queue = <<InitialState(starting_ats, valves, 0)>>
        /\ expanded # NoState =>
               (expanded.children = <<>> /\ state_priority_queue = <<>>)

C16_Witness ==
    /\ pc = "done"
    /\ time_budget = 0
    /\ expanded # NoState
    /\ Len(starting_ats) = 2
    /\ \E v \in DOMAIN valves : valves[v].flow_rate > 0

\* C17: no search state has in opened_valves a valve that cannot be reached
\* from an agent's start valve.
C17_UnreachableNeverOpened ==
    pc \in {"loop", "done"} =>
        \A s \in SearchStates : s.opened_valves \subseteq Reach(valves, StartValves)

C17_Witness ==
    /\ pc = "done"
    /\ \E v \in DOMAIN valves :
           v \notin Reach(valves, StartValves) /\ valves[v].flow_rate > 0
    /\ expanded.ticked.opened_valves # {}
    /\ expanded.ticked.time_left = 0

\* C19: the opened set only grows along a search path: every child a loop
\* iteration generates has all the opened valves of the state popped.
C19_OpenedOnlyGrows ==
    \A i \in DOMAIN expanded.children :
        expanded.popped.opened_valves \subseteq expanded.children[i].opened_valves

C19_Witness ==
    /\ expanded # NoState
    /\ expanded.popped.opened_valves # {}
    /\ \E i \in DOMAIN expanded.children :
           /\ expanded.popped.opened_valves \subseteq expanded.children[i].opened_valves
           /\ expanded.children[i].opened_valves # expanded.popped.opened_valves

AllCountdownsPositive(s) ==
    \A i \in DOMAIN s.player_states : s.player_states[i].time_left > 0

C18_UnreachableValveNoEffect ==
    (/\ pc = "done"
     /\ NumValves(valves) >= 2
     /\ (NumValves(valves) - 1) \notin Reach(valves, StartValves)
     /\ \A v \in DOMAIN PopValve(valves) :
            valves[v].exits \subseteq DOMAIN PopValve(valves))
        => result = find_optimal_total_flow(starting_ats, PopValve(valves), time_budget)

DeclaredNames == {parsed[k].id : k \in DOMAIN parsed}

ReferencedNames == UNION {{parsed[k].exits[e] : e \in DOMAIN parsed[k].exits} : k \in DOMAIN parsed}

\* C13: normalize_valves returns a dense table: the entry at index i has id i,
\* the valve named AA is the entry at index 0, and every id in an entry's exits
\* is an index of the table.
C13_DenseTable ==
    pc = "normalized" =>
        /\ \A i \in DOMAIN valves : valves[i].id = i
        /\ "AA" \in DeclaredNames => valves[0].id = Mapping(parsed)["AA"]
        /\ \A i \in DOMAIN valves : valves[i].exits \subseteq DOMAIN valves

\* C14: a name that only occurs as an exit and is never declared has an id, and
\* the table holds an entry with that id and flow_rate 0.
C14_DanglingReferencePresent ==
    pc = "normalized" =>
        \A name \in ReferencedNames \ DeclaredNames :
            /\ name \in DOMAIN Mapping(parsed)
            /\ \E i \in DOMAIN valves :
                   /\ valves[i].id = Mapping(parsed)[name]
                   /\ valves[i].flow_rate = 0

\* What the agent of the dynamic-programming solver can do in one tick at `at`:
\* move to an exit, or open the valve if it is closed and has positive flow.
TickActions(vs, at, open) ==
    {[at |-> e, open |-> open] : e \in vs[at].exits}
        \cup (IF at \notin open /\ vs[at].flow_rate > 0
              THEN {[at |-> at, open |-> open \cup {at}]} ELSE {})

\* The greatest total flow of t ticks from (at, open): the open valves yield
\* their flow on every tick, also on those in which the agent has no action left.
RECURSIVE MaxActionFlow(_, _, _, _)
MaxActionFlow(vs, at, open, t) ==
    IF t = 0 THEN 0
    ELSE LET acts == TickActions(vs, at, open)
         IN  SumFlow(open, vs)
             + (IF acts = {} THEN SumFlow(open, vs) * (t - 1)
                ELSE SetMax({MaxActionFlow(vs, a.at, a.open, t - 1) : a \in acts}))

\* C21: the dynamic-programming solver returns the greatest total flow of any
\* sequence of per-tick actions (move to an exit, or open the closed
\* positive-flow valve the agent is at), an open valve yielding its flow on
\* every tick after the one it was opened in; also with valves without exits.
C21_DPReturnsMaximum ==
    (Len(starting_ats) = 1 /\ pc = "search" /\ dp_time = time_budget) =>
        dp_result = MaxActionFlow(valves, starting_ats[1], {}, time_budget)

\* The sum of flow_rate over the ids 0..n-1 that are in `open`.
RECURSIVE FlowOfIds(_, _, _)
FlowOfIds(vs, open, n) ==
    IF n = 0 THEN 0
    ELSE (IF (n - 1) \in open THEN vs[n - 1].flow_rate ELSE 0) + FlowOfIds(vs, open, n - 1)

\* C22: get_current_flow(open, valves) is the sum of flow_rate over exactly the
\* ids in the open set, 0 for the empty set.
C22_CurrentFlowIsSumOverOpen ==
    pc = "done" =>
        \A open \in SUBSET Ids(valves) :
            get_current_flow(open, valves) = FlowOfIds(valves, open, NumValves(valves))

C22_Witness ==
    /\ pc = "done"
    /\ NumValves(valves) = 3
    /\ valves[1].flow_rate > 0
    /\ get_current_flow({0, 2}, valves) = 3
    /\ get_current_flow({}, valves) = 0

\* The state a loop iteration asks for decisions (ticked, openings applied).
Deciding == expanded.ticked

Agents == DOMAIN Deciding.player_states

Range(seq) == {seq[i] : i \in DOMAIN seq}

\* What the k-th agent of the deciding state is offered.
Candidates(k) ==
    PlayerState_get_next_states(Deciding.player_states[k], Deciding, valves, distances)

IsIdle(p) == p.variant = "Wait" /\ p.time_left = 0

\* The destinations of the agents other than the k-th.
DestinationsOfOthers(k) ==
    {destination(Deciding.player_states[j]) : j \in Agents \ {k}}

\* C23: an idle agent with countdown 0 is offered exactly Travel{v,
\* distance[at][v]} for every closed valve v with positive flow and
\* distance[at][v] < time_left that is not the destination of another agent.
C23_IdleCandidates ==
    expanded # NoState =>
        \A k \in Agents :
            IsIdle(Deciding.player_states[k]) =>
                LET at == Deciding.player_states[k].at
                IN  {c \in Range(Candidates(k)) : c.variant = "Travel"}
                        = {Travel(v, distances[at][v]) :
                               v \in {w \in Deciding.closed_valves :
                                         /\ valves[w].flow_rate > 0
                                         /\ distances[at][w] < Deciding.time_left
                                         /\ w \notin DestinationsOfOthers(k)}}

Busy(p) == p.variant \in {"Travel", "Open"}

DistinctTargets(s) ==
    \A i, j \in DOMAIN s.player_states :
        (i # j /\ Busy(s.player_states[i]) /\ Busy(s.player_states[j]))
            => s.player_states[i].at # s.player_states[j].at

\* C24: in no state of the search do two different agents travel to or open
\* the same valve, also when they choose in the same expansion.
C24_NoSharedTarget ==
    expanded # NoState =>
        \A i \in DOMAIN expanded.children : DistinctTargets(expanded.children[i])

\* One step of an agent along a path: from p in the popped state to c in a child.
LifecycleStep(p, c) ==
    \/ c.variant = p.variant /\ c.at = p.at
    \/ p.variant = "Wait" /\ c.variant = "Travel"
    \/ p.variant = "Travel" /\ c.variant = "Open" /\ c.at = p.at
    \/ p.variant = "Open" /\ c.variant = "Wait" /\ c.at = p.at

\* C25: every agent starts Idle at its start valve with countdown 0, and along
\* every path its variant changes only in the cycle Idle -> Travelling ->
\* Opening -> Idle, with the valve kept from Travelling on.
C25_AgentLifecycle ==
    /\ (pc = "loop" /\ expanded = NoState) =>
           /\ Len(state_priority_queue) = 1
           /\ state_priority_queue[1].player_states
                  = [k \in DOMAIN starting_ats |-> Wait(starting_ats[k], 0)]
    /\ expanded # NoState =>
           \A i \in DOMAIN expanded.children : \A k \in Agents :
               LifecycleStep(expanded.popped.player_states[k],
                             expanded.children[i].player_states[k])

C25_Witness ==
    /\ expanded # NoState
    /\ \E i \in DOMAIN expanded.children : \E k \in Agents :
           /\ expanded.popped.player_states[k].variant = "Open"
           /\ expanded.children[i].player_states[k].variant = "Wait"
           /\ expanded.children[i].player_states[k].at # starting_ats[k]

\* The value of the state's time_left at which the valve of a busy agent opens.
Due(s, k) ==
    LET p == s.player_states[k]
    IN  s.time_left - p.time_left - (IF p.variant = "Travel" THEN TIME_TO_OPEN_VALVE ELSE 0)

\* C26: an agent that commits at valve a, with time_left T, to valve v opens v
\* exactly at time_left = T - distance[a][v] - 1; v is not open before that,
\* and the agent is then Idle at v.
C26_OpensExactlyWhenDue ==
    expanded # NoState =>
        \A i \in DOMAIN expanded.children : \A k \in Agents :
            LET p == expanded.popped.player_states[k]
                c == expanded.children[i].player_states[k]
                child == expanded.children[i]
            IN  /\ (p.variant = "Wait" /\ c.variant = "Travel") =>
                       /\ c.at \notin child.opened_valves
                       /\ Due(child, k)
                              = Deciding.time_left - distances[p.at][c.at] - TIME_TO_OPEN_VALVE
                /\ (Busy(p) /\ Busy(c)) =>
                       /\ c.at \notin child.opened_valves
                       /\ Due(child, k) = Due(expanded.popped, k)
                /\ (p.variant = "Open" /\ c.variant = "Wait") =>
                       /\ p.at \notin expanded.popped.opened_valves
                       /\ p.at \in child.opened_valves
                       /\ child.time_left = Due(expanded.popped, k)
                       /\ c = Wait(p.at, 0)

\* C27: an idle agent without a candidate while time_left > 0 gets the single
\* successor Wait(at, time_left); an agent that waits with a positive
\* countdown waits for all the time that is left, at the same valve.
C27_WaitsOutTheClock ==
    expanded # NoState =>
        \A k \in Agents :
            LET p == Deciding.player_states[k]
                q == expanded.popped.player_states[k]
                results == SeqFilterCandidates(BitSetIter(Deciding.closed_valves),
                               Deciding, valves, distances[p.at],
                               {destination(Deciding.player_states[j]) : j \in Agents})
            IN  /\ (IsIdle(p) /\ results = <<>> /\ Deciding.time_left > 0) =>
                       /\ Candidates(k) = <<Wait(p.at, Deciding.time_left)>>
                       /\ \A i \in DOMAIN expanded.children :
                              expanded.children[i].player_states[k]
                                  = Wait(p.at, Deciding.time_left)
                /\ (q.variant = "Wait" /\ q.time_left > 0) =>
                       /\ q.time_left = expanded.popped.time_left
                       /\ \A i \in DOMAIN expanded.children :
                              /\ expanded.children[i].player_states[k].variant = "Wait"
                              /\ expanded.children[i].player_states[k].at = q.at

C27_Witness ==
    /\ expanded # NoState
    /\ \E i \in DOMAIN expanded.children : \E k, j \in Agents :
           /\ expanded.popped.player_states[k].variant = "Wait"
           /\ expanded.popped.player_states[k].time_left > 0
           /\ expanded.children[i].player_states[k].time_left > 0
           /\ expanded.popped.player_states[j].variant = "Travel"
           /\ expanded.children[i].player_states[j].variant = "Open"

\* The least countdown of the agents of s.
LeastCountdown(s) ==
    CHOOSE m \in {s.player_states[k].time_left : k \in DOMAIN s.player_states} :
        \A k \in DOMAIN s.player_states : m <= s.player_states[k].time_left

\* C28: State::tick advances by exactly the least countdown: every countdown
\* and time_left decrease by it, and afterwards some agent has countdown 0.
C28_TickByLeastCountdown ==
    expanded # NoState =>
        LET m == LeastCountdown(expanded.popped)
        IN  /\ Deciding.time_left = expanded.popped.time_left - m
            /\ \A k \in Agents :
                   Deciding.player_states[k].time_left
                       = expanded.popped.player_states[k].time_left - m
            /\ \E k \in Agents : Deciding.player_states[k].time_left = 0

C28_Witness ==
    /\ expanded # NoState
    /\ LeastCountdown(expanded.popped) > 0
    /\ \E k \in Agents : Deciding.player_states[k].time_left > 0

\* C29: a tick of e time units adds e times the flow of the valves open before
\* the tick; a valve whose opening completes with the tick joins the opened
\* set only afterwards.
C29_TickAccumulatesOpenFlow ==
    expanded # NoState =>
        LET e == expanded.popped.time_left - Deciding.time_left
        IN  /\ Deciding.accumulated_flow
                   = expanded.popped.accumulated_flow
                         + e * FlowOfIds(valves, expanded.popped.opened_valves,
                                         NumValves(valves))
            /\ Deciding.opened_valves
                   = expanded.popped.opened_valves
                         \cup {Deciding.player_states[k].at :
                                   k \in {j \in Agents :
                                       /\ Deciding.player_states[j].variant = "Open"
                                       /\ Deciding.player_states[j].time_left = 0}}

C29_Witness ==
    /\ expanded # NoState
    /\ expanded.popped.time_left > Deciding.time_left
    /\ FlowOfIds(valves, expanded.popped.opened_valves, NumValves(valves)) > 0
    /\ Deciding.opened_valves # expanded.popped.opened_valves
    /\ valves[CHOOSE v \in Deciding.opened_valves \ expanded.popped.opened_valves : TRUE].flow_rate > 0

\* The product of the lengths of the first k candidate lists.
RECURSIVE CandidateCount(_, _)
CandidateCount(cands, k) ==
    IF k = 0 THEN 1 ELSE Len(cands[k]) * CandidateCount(cands, k - 1)

\* Every way to take one candidate from each of the first k lists.
RECURSIVE Combinations(_, _)
Combinations(cands, k) ==
    IF k = 0 THEN {<<>>}
    ELSE {Append(t, c) : t \in Combinations(cands, k - 1), c \in Range(cands[k])}

\* C30: State::get_next_states returns the Cartesian product of the agents'
\* candidate lists: one child per combination, each with as many agents as
\* the parent, the k-th one being a candidate of the parent's k-th agent.
C30_ChildrenAreTheProduct ==
    expanded # NoState =>
        LET N == Len(Deciding.player_states)
            cands == [k \in 1..N |-> Candidates(k)]
            combos == Combinations(cands, N)
        IN  /\ Len(expanded.children) = CandidateCount(cands, N)
            /\ \A i \in DOMAIN expanded.children :
                   /\ Len(expanded.children[i].player_states) = N
                   /\ \A k \in 1..N :
                          expanded.children[i].player_states[k] \in Range(cands[k])
            /\ {expanded.children[i].player_states : i \in DOMAIN expanded.children} = combos
            /\ Cardinality(combos) = Len(expanded.children)

C30_Witness ==
    /\ expanded # NoState
    /\ Len(Deciding.player_states) = 2
    /\ Len(Candidates(1)) >= 2
    /\ Len(Candidates(2)) >= 2
    /\ Len(expanded.children) >= 4

\* C31: every child of State::get_next_states has the opened_valves,
\* closed_valves, accumulated_flow and time_left of the state it was derived
\* from; only player_states and estimated_total_flow differ.
C31_ChildrenKeepTheFrame ==
    expanded # NoState =>
        \A i \in DOMAIN expanded.children :
            /\ expanded.children[i].opened_valves = Deciding.opened_valves
            /\ expanded.children[i].closed_valves = Deciding.closed_valves
            /\ expanded.children[i].accumulated_flow = Deciding.accumulated_flow
            /\ expanded.children[i].time_left = Deciding.time_left
            /\ DOMAIN expanded.children[i] = DOMAIN Deciding

C31_Witness ==
    /\ expanded # NoState
    /\ Deciding.opened_valves # {}
    /\ Deciding.accumulated_flow > 0
    /\ Deciding.time_left > 0
    /\ \E i \in DOMAIN expanded.children :
           /\ expanded.children[i].player_states # Deciding.player_states
           /\ expanded.children[i].estimated_total_flow # Deciding.estimated_total_flow

\* How many times s occurs in seq.
Occurrences(seq, s) == Cardinality({i \in DOMAIN seq : seq[i] = s})

\* C32: an expansion removes the popped state from the queue and adds exactly
\* the children whose estimated_total_flow is strictly greater than
\* best_solution_so_far as updated by that expansion; no other child enters.
C32_EnqueuedIffAboveBest ==
    [][(pc = "loop" /\ state_priority_queue # <<>>) =>
          \A s \in Range(state_priority_queue) \cup Range(state_priority_queue')
                       \cup Range(expanded'.children) :
              Occurrences(state_priority_queue', s)
                  = Occurrences(state_priority_queue, s)
                        - (IF s = expanded'.popped THEN 1 ELSE 0)
                        + Cardinality({i \in DOMAIN expanded'.children :
                              /\ expanded'.children[i] = s
                              /\ expanded'.children[i].estimated_total_flow
                                     > best_solution_so_far'})]_vars

\* A popped state that was itself enqueued as a child, and whose own children
\* are discarded because their estimate equals the best so far.
C32_Witness ==
    /\ expanded # NoState
    /\ best_solution_so_far > 0
    /\ expanded.popped.estimated_total_flow # U32_MAX
    /\ expanded.children # <<>>
    /\ \A i \in DOMAIN expanded.children :
           /\ expanded.children[i].estimated_total_flow = best_solution_so_far
           /\ expanded.children[i] \notin Queued

\* What s totals if nothing further is done until the clock runs out.
WaitOutTotal(s) ==
    s.accumulated_flow + FlowOfIds(valves, s.opened_valves, NumValves(valves)) * s.time_left

\* C33: after a state is popped and processed, best_solution_so_far is at
\* least accumulated_flow + (flow of its opened valves) * time_left.
C33_BestCoversWaitingOut ==
    expanded # NoState => best_solution_so_far >= WaitOutTotal(Deciding)

\* C33, as the code has it: after a state is popped and processed,
\* best_solution_so_far is at least the accumulated_flow of the ticked state;
\* what its open valves yield in the remaining time is not counted yet.
C33_BestCoversAccumulatedFlow ==
    expanded # NoState => best_solution_so_far >= Deciding.accumulated_flow

C33_Witness ==
    /\ expanded # NoState
    /\ Deciding.accumulated_flow > 0
    /\ best_solution_so_far = Deciding.accumulated_flow
    /\ Deciding.accumulated_flow > expanded.popped.accumulated_flow
    /\ WaitOutTotal(Deciding) > best_solution_so_far

\* C34: every state an expansion enqueues has time_left > 0; a popped state
\* whose time_left is 0 after its tick puts no child into the queue.
C34_QueuedHaveTimeLeft ==
    /\ \A s \in Queued :
           s.time_left > 0 \/ s = InitialState(starting_ats, valves, time_budget)
    /\ expanded # NoState =>
           \A i \in DOMAIN expanded.children :
               expanded.children[i].estimated_total_flow > best_solution_so_far
                   => expanded.children[i].time_left > 0

\* A state ticked to time_left 0 that has a child all the same, left out of
\* the queue.
C34_Witness ==
    /\ expanded # NoState
    /\ Deciding.time_left = 0
    /\ Deciding.accumulated_flow > 0
    /\ expanded.children # <<>>
    /\ \A i \in DOMAIN expanded.children : expanded.children[i] \notin Queued

\* The tick-by-tick simulation of the heuristic carried on to time_left, with
\* no shortcut: in tick i the valves in `opened` flow, and on every even tick
\* each of the `players` agents opens the best closed valve left, if any.
RECURSIVE SimulatedFlow(_, _, _, _, _, _)
SimulatedFlow(vs, players, time_left, i, opened, sorted) ==
    IF i >= time_left THEN 0
    ELSE LET n == IF i % 2 = 0 THEN Min2(players, Len(sorted)) ELSE 0
             taken == {sorted[k] : k \in (Len(sorted) - n + 1)..Len(sorted)}
         IN  SumFlow(opened, vs)
                 + SimulatedFlow(vs, players, time_left, i + 1, opened \cup taken,
                                 SubSeq(sorted, 1, Len(sorted) - n))

\* C35: the early return of estimated_flow_heuristic yields what the
\* tick-by-tick simulation carried on to time_left yields, for any number of
\* agents.
C35_EarlyReturnEqualsSimulation ==
    expanded # NoState =>
        \A i \in DOMAIN expanded.children :
            LET s == expanded.children[i]
            IN  estimated_flow_heuristic(s, valves)
                    = SimulatedFlow(valves, Len(s.player_states), s.time_left, 0,
                                    s.opened_valves,
                                    SortByFlowRate(s.closed_valves, valves))

\* The greatest total flow of any real schedule on the input at hand.
TrueMaximum ==
    IF Len(starting_ats) = 1
    THEN MaxActionFlow(valves, starting_ats[1], {}, time_budget)
    ELSE MaxScheduleFlow(valves, starting_ats, {}, time_budget)

CountdownsWithinTime(s) ==
    \A k \in DOMAIN s.player_states :
        LET p == s.player_states[k]
        IN  /\ p.time_left <= s.time_left
            /\ p.variant = "Travel" => p.time_left < s.time_left
            /\ Busy(p) => Due(s, k) >= 0

\* C37: in every state of the search each agent's countdown is at most the
\* state's time_left, strictly less for a travelling agent; so a tick never
\* elapses more than time_left and every committed opening completes in time.
C37_CountdownsWithinTime ==
    expanded # NoState =>
        /\ CountdownsWithinTime(expanded.popped)
        /\ CountdownsWithinTime(Deciding)
        /\ \A i \in DOMAIN expanded.children : CountdownsWithinTime(expanded.children[i])
        /\ LeastCountdown(expanded.popped) <= expanded.popped.time_left

C37_Witness ==
    /\ expanded # NoState
    /\ \E i \in DOMAIN expanded.children : \E k, j \in Agents :
           LET s == expanded.children[i]
           IN  /\ s.player_states[k].variant = "Travel"
               /\ s.player_states[k].time_left = s.time_left - 1
               /\ s.player_states[k].time_left > 0
               /\ s.player_states[j].variant = "Wait"
               /\ s.player_states[j].time_left = s.time_left

IsPartition(s) ==
    /\ s.opened_valves \cap s.closed_valves = {}
    /\ s.opened_valves \cup s.closed_valves = Ids(valves)

\* C38: in every state of the search opened_valves and closed_valves are
\* disjoint and together hold every index of the valve table.
C38_OpenedClosedPartition ==
    /\ \A s \in Queued : IsPartition(s)
    /\ expanded # NoState =>
           /\ IsPartition(expanded.popped)
           /\ IsPartition(Deciding)
           /\ \A i \in DOMAIN expanded.children : IsPartition(expanded.children[i])

C38_Witness ==
    /\ expanded # NoState
    /\ expanded.popped.opened_valves # {}
    /\ Deciding.opened_valves # expanded.popped.opened_valves
    /\ Deciding.closed_valves # {}
    /\ expanded.children # <<>>

\* C39: whatever state is popped among those of equal estimated_total_flow,
\* the search returns the value it returns with the order of BinaryHeap.
C39_TieOrderDoesNotMatter ==
    pc = "done" => result = find_optimal_total_flow(starting_ats, valves, time_budget)

====
